---- MODULE Spec2Model ----
(***************************************************************************)
(* A model of json_to_xlsx.py: the extraction of data.data_string.data.     *)
(* series, the column order (_ordered_fields and main's keyEvent rule),     *)
(* the row projection, the worksheet body (_sheet_xml, _column_name) and    *)
(* the package written by _write_xlsx.                                      *)
(*                                                                          *)
(* Four specifications share the variables below:                          *)
(*   Spec        main() from the input document to the written archive     *)
(*   SpecFields  the key walk of _ordered_fields, its positional rules     *)
(*               and main's keyEvent rule, over every walk of keys         *)
(*   SpecSheet   _sheet_xml over every small grid of cell values           *)
(*   SpecColumn  the loop of _column_name, one iteration per step          *)
(* A variable a specification does not use keeps its initial idle value.    *)
(***************************************************************************)
EXTENDS Integers, Sequences, FiniteSets, TLC

VARIABLES
    pc,        \* position in main / in the function a specification runs
    payload,   \* the input document as json.load would deliver it
    fs,        \* the output directory and the file at <output_dir>/<name>
    series,    \* main: series
    fields,    \* main: fields
    rows,      \* main: [fields, chinese_labels, *data_rows]; _sheet_xml: rows
    error,     \* the exception that ended main, or None
    part,      \* _write_xlsx: number of archive.writestr calls completed
    walk,      \* every key yielded so far by the loops of _ordered_fields
    ordered,   \* _ordered_fields: ordered
    seen,      \* _ordered_fields: seen
    result,    \* _ordered_fields: result
    sheet,     \* _sheet_xml: lines
    n,         \* _column_name: the argument
    index,     \* _column_name: index
    name       \* _column_name: name

vars == <<pc, payload, fs, series, fields, rows, error, part, walk, ordered,
          seen, result, sheet, n, index, name>>

mainVars == <<payload, fs, series, rows, error, part>>
fieldVars == <<walk, ordered, seen, result>>
columnVars == <<n, index, name>>

\* Python's None, as a field name or an exception slot.
None == "None"

-----------------------------------------------------------------------------
(* Sequence helpers with the semantics of the Python list operations used. *)

\* x in s
Contains(s, x) == \E i \in DOMAIN s : s[i] = x

\* s.remove(x): drops the first occurrence of x (the callers test x in s first)
RECURSIVE Remove(_, _)
Remove(s, x) ==
    IF s = <<>> THEN <<>>
    ELSE IF Head(s) = x THEN Tail(s)
    ELSE <<Head(s)>> \o Remove(Tail(s), x)

\* the number of positions of s that hold x
Count(s, x) == Cardinality({i \in DOMAIN s : s[i] = x})

\* the elements of s as a set
Range(s) == {s[i] : i \in DOMAIN s}

-----------------------------------------------------------------------------
(* FIELD_LABELS.  The labels are written as their Unicode code points.     *)

FIELD_LABELS ==
    "timeMinute" :> "U+65F6U+523B" @@
    "commentCnt" :> "U+8BC4U+8BBAU+6570" @@
    "commentCntRank" :> "U+4E92U+52A8U+9AD8U+5CF0" @@
    "commentUcnt" :> "U+8BC4U+8BBAU+4EBAU+6570" @@
    "costDiamonds" :> "U+6D88U+8017U+94BBU+77F3U+6570" @@
    "consumeUcnt" :> "U+9001U+793CU+4EBAU+6570" @@
    "earnScore" :> "U+97F3U+6D6A" @@
    "earnScoreRank" :> "U+9001U+793CU+9AD8U+5CF0" @@
    "expectMinute" :> "U+9884U+8BA1U+6276U+6301U+65F6U+957F" @@
    "expectWatchCnt" :> "U+9884U+8BA1U+8FDBU+623FU+6570U+91CF" @@
    "followUcnt" :> "U+5173U+6CE8U+4EBAU+6570" @@
    "likeCnt" :> "U+70B9U+8D5EU+6570" @@
    "likeUcnt" :> "U+70B9U+8D5EU+4EBAU+6570" @@
    "lottery" :> "U+62BDU+5956" @@
    "luckymoneyCnt" :> "U+798FU+888BU+94BBU+77F3U+6570" @@
    "operatorID" :> "U+64CDU+4F5CU+5458U+0049U+0044" @@
    "operatorName" :> "U+64CDU+4F5CU+5458U+540DU+5B57" @@
    "pcuTotal" :> "U+5728U+7EBFU+4EBAU+6570" @@
    "realMinute" :> "U+5B9EU+9645U+6276U+6301U+65F6U+957F" @@
    "realWatchCnt" :> "U+5B9EU+9645U+8FDBU+623FU+6570U+91CF" @@
    "watchUcnt" :> "U+8FDBU+5165U+76F4U+64ADU+95F4U+4EBAU+6570" @@
    "watchUcntRank" :> "U+5728U+7EBFU+89C2U+4F17U+9AD8U+5CF0" @@
    "keyEvent" :> "U+5173U+952EU+4E8BU+4EF6"

\* FIELD_LABELS.get(field, field)
Label(field) ==
    IF field \in DOMAIN FIELD_LABELS THEN FIELD_LABELS[field] ELSE field

-----------------------------------------------------------------------------
(* _ordered_fields                                                         *)

\* The fields with a fixed position, and two that have none: one with a
\* label in FIELD_LABELS and one without.
FixedFields == {"timeMinute", "groupPlay", "watchUcnt", "pcuTotal", "keyEvent"}
OtherFields == {"likeCnt", "extra"}
FieldNames == FixedFields \cup OtherFields

\* the longest key walk SpecFields follows
MaxWalk == 6

\* a mutant of Discover: no membership test, every key is appended
DiscoverNoSeenTest(o, s, key) ==
    [ordered |-> Append(o, key), seen |-> s \cup {key}]

\* a mutant of Discover: a key seen again moves to the end of the list
DiscoverLastSeen(o, s, key) ==
    [ordered |-> Append(SelectSeq(o, LAMBDA k : k # key), key),
     seen |-> s \cup {key}]

\* the body of the inner loop: one key of one entry
Discover(o, s, key) ==
    IF key \notin s
    THEN [ordered |-> Append(o, key), seen |-> s \cup {key}]
    ELSE [ordered |-> o, seen |-> s]

\* the nested function _pop, with the list it mutates made explicit
_pop(o, field) ==
    IF Contains(o, field)
    THEN [ordered |-> Remove(o, field), value |-> field]
    ELSE [ordered |-> o, value |-> None]

\* `if x:` for a value that is a string or None
Truthy(x) == x # None /\ x # ""

\* a mutant of Reposition: pcuTotal is appended before watchUcnt
RepositionSwapped(o) ==
    LET p1 == _pop(o, "timeMinute")
        r1 == IF Truthy(p1.value) THEN <<p1.value>> ELSE <<>>
        p2 == _pop(p1.ordered, "groupPlay")
        p3 == _pop(p2.ordered, "watchUcnt")
        p4 == _pop(p3.ordered, "pcuTotal")
        r2 == r1 \o p4.ordered
        r3 == IF Truthy(p4.value) THEN Append(r2, p4.value) ELSE r2
    IN  IF Truthy(p3.value) THEN Append(r3, p3.value) ELSE r3

\* the positional rules: from `result = []` to `return result`
Reposition(o) ==
    LET p1 == _pop(o, "timeMinute")
        r1 == IF Truthy(p1.value) THEN <<p1.value>> ELSE <<>>
        p2 == _pop(p1.ordered, "groupPlay")
        p3 == _pop(p2.ordered, "watchUcnt")
        p4 == _pop(p3.ordered, "pcuTotal")
        r2 == r1 \o p4.ordered
        r3 == IF Truthy(p3.value) THEN Append(r2, p3.value) ELSE r2
    IN  IF Truthy(p4.value) THEN Append(r3, p4.value) ELSE r3

\* a mutant of KeyEventLast: keyEvent is moved only when it was discovered
KeyEventLastIfPresent(f) ==
    IF Contains(f, "keyEvent")
    THEN Append(Remove(f, "keyEvent"), "keyEvent")
    ELSE f

\* main: the keyEvent rule applied to the result of _ordered_fields
KeyEventLast(f) ==
    Append(IF Contains(f, "keyEvent") THEN Remove(f, "keyEvent") ELSE f,
           "keyEvent")

-----------------------------------------------------------------------------
(* _column_name.  A column name is the sequence of its letters.            *)

Alphabet ==
    <<"A", "B", "C", "D", "E", "F", "G", "H", "I", "J", "K", "L", "M",
      "N", "O", "P", "Q", "R", "S", "T", "U", "V", "W", "X", "Y", "Z">>

\* chr(code) for the codes of the capital letters
Chr(code) == Alphabet[code - 64]

\* the largest column index SpecColumn converts
MaxIndex == 710

\* a mutant of ColumnStep: divmod(index, 26), the usual base-26 slip
ColumnStepNoBorrow(i, nm) ==
    [index |-> i \div 26, name |-> <<Chr(65 + (((i % 26) + 25) % 26))>> \o nm]

\* one iteration of the while loop
ColumnStep(i, nm) ==
    LET q == (i - 1) \div 26
        remainder == (i - 1) % 26
    IN  [index |-> q, name |-> <<Chr(65 + remainder)>> \o nm]

RECURSIVE ColumnLoop(_, _)
\* `while index:` from a given index and name
ColumnLoop(i, nm) ==
    IF i = 0 THEN nm
    ELSE LET s == ColumnStep(i, nm) IN ColumnLoop(s.index, s.name)

_column_name(i) == ColumnLoop(i, <<>>)

-----------------------------------------------------------------------------
(* Cell values and _escape_cell_value.                                     *)
(* A value is [t, s]: its JSON type and str(value) as a sequence of text   *)
(* chunks.  A chunk is a run of characters none of which is special, or    *)
(* one of the special characters "&", "<", ">", "CR", "LF"; an escape      *)
(* sequence in the output is one chunk.  The empty string has no chunk.    *)

Str(chunks) == [t |-> "str", s |-> chunks]
EmptyStr == Str(<<>>)
JsonNull == [t |-> "null", s |-> <<"None">>]
JsonInt(digits) == [t |-> "int", s |-> <<digits>>]

RECURSIVE ReplaceCrLf(_)
\* text.replace("\r\n", "\n")
ReplaceCrLf(s) ==
    IF s = <<>> THEN <<>>
    ELSE IF Len(s) >= 2 /\ s[1] = "CR" /\ s[2] = "LF"
         THEN <<"LF">> \o ReplaceCrLf(Tail(Tail(s)))
         ELSE <<Head(s)>> \o ReplaceCrLf(Tail(s))

\* text.replace(old, new) for a single character old
ReplaceChar(s, old, new) == [i \in DOMAIN s |-> IF s[i] = old THEN new ELSE s[i]]

\* xml.sax.saxutils.escape(text)
escape(s) ==
    ReplaceChar(ReplaceChar(ReplaceChar(s, "&", "&amp;"), ">", "&gt;"), "<", "&lt;")

_escape_cell_value(value) ==
    LET text1 == ReplaceChar(ReplaceCrLf(value.s), "CR", "LF")
        text2 == escape(text1)
    IN  ReplaceChar(text2, "LF", "&#10;")

-----------------------------------------------------------------------------
(* _sheet_xml.  A line of the worksheet is [kind, r, col, text]: the kind  *)
(* of element, the row number in r="...", the column letters of a cell     *)
(* reference and the escaped text of a cell.                               *)

Line(kind) == [kind |-> kind, r |-> 0, col |-> <<>>, text |-> <<>>]

\* a mutant of Skipped: `if not value`
SkippedFalsy(value) ==
    \/ value.t = "null"
    \/ value.s = <<>>
    \/ value.t = "int" /\ value.s = <<"0">>

\* `value in ("", None)`
Skipped(value) ==
    \/ value.t = "str" /\ value.s = <<>>
    \/ value.t = "null"

\* the <c> line of one value
CellLine(row_index, column_index, value) ==
    [kind |-> "c", r |-> row_index, col |-> _column_name(column_index),
     text |-> _escape_cell_value(value)]

RECURSIVE CellLines(_, _, _)
\* the inner loop from column_index on
CellLines(row, row_index, column_index) ==
    IF column_index > Len(row) THEN <<>>
    ELSE IF Skipped(row[column_index])
         THEN CellLines(row, row_index, column_index + 1)
         ELSE <<CellLine(row_index, column_index, row[column_index])>>
              \o CellLines(row, row_index, column_index + 1)

RECURSIVE RowLines(_, _)
\* the outer loop from row_index on
RowLines(rs, row_index) ==
    IF row_index > Len(rs) THEN <<>>
    ELSE <<[Line("row") EXCEPT !.r = row_index]>>
         \o CellLines(rs[row_index], row_index, 1)
         \o <<Line("/row")>>
         \o RowLines(rs, row_index + 1)

_sheet_xml(rs) ==
    <<Line("?xml"), Line("worksheet"), Line("sheetData")>>
    \o RowLines(rs, 1)
    \o <<Line("/sheetData"), Line("/worksheet")>>

-----------------------------------------------------------------------------
(* The input document and _load_data_string_series.                        *)
(* payload records what the code can tell apart: whether the file is JSON  *)
(* (json), whether data.data_string is there and what it is (data_string:  *)
(* "missing", "number" or "text"), whether that text is JSON (text_json),  *)
(* and data.series inside it: [t, items] with t = "missing" when the path  *)
(* is absent, else the JSON type, and items the elements of a list.        *)
(* An entry of the list is [t, items]: its JSON type and, for a dict, its  *)
(* [k, v] pairs in document order; for a str, one pair per character.      *)

Json(t, items) == [t |-> t, items |-> items]

\* the most entries a series of Spec has
MaxEntries == 2

\* the keys of the entries of Spec, and the value each carries
MainKeys == {"timeMinute", "keyEvent", "likeCnt"}
MainValue(k) ==
    IF k = "timeMinute" THEN Str(<<"00:00">>)
    ELSE IF k = "keyEvent" THEN Str(<<"start">>)
    ELSE JsonInt("5")

\* every dict over MainKeys, in every key order
DictEntries ==
    {Json("dict", [i \in DOMAIN ks |-> [k |-> ks[i], v |-> MainValue(ks[i])]]) :
        ks \in {q \in UNION {[1..m -> MainKeys] : m \in 0..Cardinality(MainKeys)} :
                   \A i, j \in DOMAIN q : i # j => q[i] # q[j]}}

\* entries that are not mappings: a number and the string "ab"
OtherEntries ==
    {Json("int", <<>>),
     Json("str", <<[k |-> "a", v |-> EmptyStr], [k |-> "b", v |-> EmptyStr]>>)}

SeriesLists ==
    {Json("list", items) :
        items \in UNION {[1..m -> DictEntries \cup OtherEntries] : m \in 0..MaxEntries}}

Payload(json, data_string, text_json, s) ==
    [json |-> json, data_string |-> data_string, text_json |-> text_json,
     series |-> s]

Payloads ==
    {Payload(FALSE, "missing", FALSE, Json("missing", <<>>)),
     Payload(TRUE, "missing", FALSE, Json("missing", <<>>)),
     Payload(TRUE, "number", FALSE, Json("missing", <<>>)),
     Payload(TRUE, "text", FALSE, Json("missing", <<>>))}
    \cup {Payload(TRUE, "text", TRUE, s) :
            s \in {Json("missing", <<>>), Json("null", <<>>), Json("dict", <<>>)}
                  \cup SeriesLists}

Returned(value) == [error |-> None, value |-> value]
Raised(exception) == [error |-> exception, value |-> <<>>]

_load_data_string_series(p) ==
    IF ~p.json THEN Raised("JSONDecodeError")
    ELSE IF p.data_string = "missing" THEN Raised("KeyError")
    ELSE IF p.data_string # "text" THEN Raised("TypeError")
    ELSE IF ~p.text_json THEN Raised("ValueError")
    ELSE IF p.series.t = "missing" THEN Raised("KeyError")
    ELSE IF p.series.t # "list" THEN Raised("TypeError")
    ELSE Returned(p.series.items)

-----------------------------------------------------------------------------
(* _ordered_fields over a series, and the row projection of main.          *)

\* `for key in entry` is defined: a dict yields its keys, a str its characters
Iterable(entry) == entry.t \in {"dict", "str", "list"}

\* the keys `for key in entry` yields
Keys(entry) == [i \in DOMAIN entry.items |-> entry.items[i].k]

\* entry has a get method
HasGet(entry) == entry.t = "dict"

\* entry.get(field, "")
Get(entry, field) ==
    IF \E i \in DOMAIN entry.items : entry.items[i].k = field
    THEN entry.items[CHOOSE i \in DOMAIN entry.items : entry.items[i].k = field].v
    ELSE EmptyStr

RECURSIVE DiscoverKeys(_, _)
\* the inner loop over the keys of one entry
DiscoverKeys(d, keys) ==
    IF keys = <<>> THEN d
    ELSE DiscoverKeys(Discover(d.ordered, d.seen, Head(keys)), Tail(keys))

RECURSIVE DiscoverEntries(_, _)
\* the outer loop over the entries
DiscoverEntries(d, entries) ==
    IF entries = <<>> THEN d
    ELSE DiscoverEntries(DiscoverKeys(d, Keys(Head(entries))), Tail(entries))

_ordered_fields(entries) ==
    IF \E i \in DOMAIN entries : ~Iterable(entries[i])
    THEN Raised("TypeError")
    ELSE Returned(Reposition(
             DiscoverEntries([ordered |-> <<>>, seen |-> {}], entries).ordered))

\* chinese_labels
ChineseLabels(f) == [i \in DOMAIN f |-> Str(<<Label(f[i])>>)]

\* data_rows
DataRows(entries, f) ==
    [e \in DOMAIN entries |-> [i \in DOMAIN f |-> Get(entries[e], f[i])]]

\* the argument main passes to _write_xlsx: [fields, chinese_labels, *data_rows]
Rows(entries, f) ==
    <<[i \in DOMAIN f |-> Str(<<f[i]>>)], ChineseLabels(f)>> \o DataRows(entries, f)

-----------------------------------------------------------------------------
(* The package parts.  A path is the sequence of its segments, so that     *)
(* "/xl/workbook.xml" is <<"", "xl", "workbook.xml">>.  The body of a part  *)
(* keeps what other parts refer to: the Override part names of the         *)
(* manifest, the relationships of a .rels part, the sheets of the          *)
(* workbook and the lines of the worksheet.                                *)

Body == [overrides |-> {}, rels |-> {}, sheets |-> {}, lines |-> <<>>]

Relationship(id, type, target) == [Id |-> id, Type |-> type, Target |-> target]

_content_types_xml ==
    [Body EXCEPT !.overrides =
        {<<"", "xl", "workbook.xml">>,
         <<"", "xl", "worksheets", "sheet1.xml">>,
         <<"", "xl", "styles.xml">>,
         <<"", "docProps", "core.xml">>,
         <<"", "docProps", "app.xml">>}]

_root_rels_xml ==
    [Body EXCEPT !.rels =
        {Relationship("rId1", "officeDocument", <<"xl", "workbook.xml">>),
         Relationship("rId2", "core-properties", <<"docProps", "core.xml">>),
         Relationship("rId3", "extended-properties", <<"docProps", "app.xml">>)}]

_workbook_xml ==
    [Body EXCEPT !.sheets = {[name |-> "data", sheetId |-> "1", id |-> "rId1"]}]

\* a mutant of _workbook_rels_xml: the worksheet target lacks its directory
WorkbookRelsFlatTarget ==
    [Body EXCEPT !.rels =
        {Relationship("rId1", "worksheet", <<"sheet1.xml">>),
         Relationship("rId2", "styles", <<"styles.xml">>)}]

_workbook_rels_xml ==
    [Body EXCEPT !.rels =
        {Relationship("rId1", "worksheet", <<"worksheets", "sheet1.xml">>),
         Relationship("rId2", "styles", <<"styles.xml">>)}]

_styles_xml == Body
_app_props_xml == Body
_core_props_xml == Body

Part(path, body) == [name |-> path, body |-> body]

\* the archive.writestr calls of _write_xlsx, in order
Writes(sheet_xml) ==
    <<Part(<<"[Content_Types].xml">>, _content_types_xml),
      Part(<<"_rels", ".rels">>, _root_rels_xml),
      Part(<<"docProps", "core.xml">>, _core_props_xml),
      Part(<<"docProps", "app.xml">>, _app_props_xml),
      Part(<<"xl", "workbook.xml">>, _workbook_xml),
      Part(<<"xl", "_rels", "workbook.xml.rels">>, _workbook_rels_xml),
      Part(<<"xl", "styles.xml">>, _styles_xml),
      Part(<<"xl", "worksheets", "sheet1.xml">>, [Body EXCEPT !.lines = sheet_xml])>>

-----------------------------------------------------------------------------
(* The file system: the output directory ("absent", "existing" before the  *)
(* run, or "created" by it) and the file at <output_dir>/<name>: whether   *)
(* it exists, whether its content is from before the run ("previous") or   *)
(* from this run ("new"), the parts in it, and whether the archive was     *)
(* finalised (its central directory written).                              *)

NoFile == [exists |-> FALSE, origin |-> "none", parts |-> <<>>, finalised |-> FALSE]
PreviousFile == [exists |-> TRUE, origin |-> "previous", parts |-> <<>>, finalised |-> TRUE]
NewFile == [exists |-> TRUE, origin |-> "new", parts |-> <<>>, finalised |-> FALSE]

InitialFs ==
    {[dir |-> "absent", file |-> NoFile],
     [dir |-> "existing", file |-> NoFile],
     [dir |-> "existing", file |-> PreviousFile]}

IdleMain ==
    /\ payload = None /\ fs = None /\ series = <<>> /\ error = None /\ part = 0
IdleFields == walk = <<>> /\ ordered = <<>> /\ seen = {} /\ result = <<>>
IdleColumn == n = 0 /\ index = 0 /\ name = <<>>

-----------------------------------------------------------------------------
(* Spec: main.                                                             *)

Init ==
    /\ pc = "start"
    /\ payload \in Payloads
    /\ fs \in InitialFs
    /\ series = <<>> /\ fields = <<>> /\ rows = <<>> /\ sheet = <<>>
    /\ error = None /\ part = 0
    /\ IdleFields /\ IdleColumn

\* an exception leaves main
Exit(exception) == pc' = "exit" /\ error' = exception

\* series = _load_data_string_series(args.json_path)
MainLoad ==
    /\ pc = "start"
    /\ LET r == _load_data_string_series(payload)
       IN  IF r.error # None
           THEN Exit(r.error) /\ UNCHANGED series
           ELSE pc' = "loaded" /\ series' = r.value /\ UNCHANGED error
    /\ UNCHANGED <<payload, fs, fields, rows, part, sheet, fieldVars, columnVars>>

\* a mutant of MainCheckEmpty: the guard is missing
MainCheckEmptySkipped ==
    /\ pc = "loaded"
    /\ pc' = "nonempty"
    /\ UNCHANGED <<payload, fs, series, fields, rows, error, part, sheet,
                   fieldVars, columnVars>>

\* if not series: raise SystemExit(...)
MainCheckEmpty ==
    /\ pc = "loaded"
    /\ IF series = <<>>
       THEN Exit("SystemExit")
       ELSE pc' = "nonempty" /\ UNCHANGED error
    /\ UNCHANGED <<payload, fs, series, fields, rows, part, sheet, fieldVars,
                   columnVars>>

\* fields = _ordered_fields(series), then the keyEvent rule
MainFields ==
    /\ pc = "nonempty"
    /\ LET r == _ordered_fields(series)
       IN  IF r.error # None
           THEN Exit(r.error) /\ UNCHANGED fields
           ELSE pc' = "fields" /\ fields' = KeyEventLast(r.value) /\ UNCHANGED error
    /\ UNCHANGED <<payload, fs, series, rows, part, sheet, fieldVars, columnVars>>

\* chinese_labels and data_rows; entry.get raises on an entry without it
MainRows ==
    /\ pc = "fields"
    /\ IF \E i \in DOMAIN series : ~HasGet(series[i])
       THEN Exit("AttributeError") /\ UNCHANGED rows
       ELSE pc' = "rows" /\ rows' = Rows(series, fields) /\ UNCHANGED error
    /\ UNCHANGED <<payload, fs, series, fields, part, sheet, fieldVars, columnVars>>

\* _write_xlsx: sheet_xml = _sheet_xml(rows); xlsx_path.parent.mkdir(...)
WriteMkdir ==
    /\ pc = "rows"
    /\ sheet' = _sheet_xml(rows)
    /\ \/ /\ fs' = [fs EXCEPT !.dir = IF @ = "absent" THEN "created" ELSE @]
          /\ pc' = "mkdir" /\ UNCHANGED error
       \/ /\ fs.dir = "absent"
          /\ Exit("OSError") /\ UNCHANGED fs
    /\ UNCHANGED <<payload, series, fields, rows, part, fieldVars, columnVars>>

\* ZipFile(xlsx_path, "w", ZIP_DEFLATED): creates or truncates the file
ZipOpen ==
    /\ pc = "mkdir"
    /\ \/ fs' = [fs EXCEPT !.file = NewFile] /\ pc' = "zip" /\ UNCHANGED error
       \/ Exit("OSError") /\ UNCHANGED fs
    /\ UNCHANGED <<payload, series, fields, rows, part, sheet, fieldVars, columnVars>>

\* the next archive.writestr succeeds
ZipWrite ==
    /\ pc = "zip"
    /\ part < Len(Writes(sheet))
    /\ part' = part + 1
    /\ fs' = [fs EXCEPT !.file.parts = Append(@, Writes(sheet)[part + 1])]
    /\ UNCHANGED <<pc, payload, series, fields, rows, error, sheet, fieldVars,
                   columnVars>>

\* the next archive.writestr raises: the with block closes the archive, which
\* writes the central directory of the parts written so far, or fails as well
ZipWriteFails ==
    /\ pc = "zip"
    /\ part < Len(Writes(sheet))
    /\ \E finalised \in BOOLEAN : fs' = [fs EXCEPT !.file.finalised = finalised]
    /\ Exit("OSError")
    /\ UNCHANGED <<payload, series, fields, rows, part, sheet, fieldVars, columnVars>>

\* the with block ends: ZipFile.close() writes the central directory
ZipClose ==
    /\ pc = "zip"
    /\ part = Len(Writes(sheet))
    /\ \/ fs' = [fs EXCEPT !.file.finalised = TRUE] /\ pc' = "written"
          /\ UNCHANGED error
       \/ Exit("OSError") /\ UNCHANGED fs
    /\ UNCHANGED <<payload, series, fields, rows, part, sheet, fieldVars, columnVars>>

\* print(f"Wrote {xlsx_path}")
MainPrint ==
    /\ pc = "written"
    /\ pc' = "done"
    /\ UNCHANGED <<payload, fs, series, fields, rows, error, part, sheet,
                   fieldVars, columnVars>>

Next ==
    \/ MainLoad \/ MainCheckEmpty \/ MainFields \/ MainRows
    \/ WriteMkdir \/ ZipOpen \/ ZipWrite \/ ZipWriteFails \/ ZipClose
    \/ MainPrint

Spec == Init /\ [][Next]_vars

-----------------------------------------------------------------------------
(* SpecFields: the loops of _ordered_fields fed one key at a time, for     *)
(* every walk of at most MaxWalk keys, then the positional rules and       *)
(* main's keyEvent rule.                                                   *)

InitFields ==
    /\ pc = "walk"
    /\ IdleFields /\ fields = <<>>
    /\ IdleMain /\ rows = <<>> /\ sheet = <<>> /\ IdleColumn

\* the loops yield one more key
Walk(key) ==
    /\ pc = "walk"
    /\ Len(walk) < MaxWalk
    /\ walk' = Append(walk, key)
    /\ LET d == Discover(ordered, seen, key)
       IN  ordered' = d.ordered /\ seen' = d.seen
    /\ UNCHANGED <<pc, result, fields, mainVars, sheet, columnVars>>

\* the loops end: the positional rules, and _ordered_fields returns
FieldsReturn ==
    /\ pc = "walk"
    /\ result' = Reposition(ordered)
    /\ pc' = "returned"
    /\ UNCHANGED <<walk, ordered, seen, fields, mainVars, sheet, columnVars>>

\* main: the keyEvent rule
FieldsKeyEvent ==
    /\ pc = "returned"
    /\ fields' = KeyEventLast(result)
    /\ pc' = "ordered"
    /\ UNCHANGED <<fieldVars, mainVars, sheet, columnVars>>

NextFields ==
    \/ \E key \in FieldNames : Walk(key)
    \/ FieldsReturn
    \/ FieldsKeyEvent

SpecFields == InitFields /\ [][NextFields]_vars

-----------------------------------------------------------------------------
(* SpecSheet: _sheet_xml on every grid of at most MaxRows rows and MaxCols *)
(* columns over CellValues.                                                *)

MaxRows == 2
MaxCols == 2

\* "", None, 0 and a text with every character _escape_cell_value rewrites
CellValues ==
    {EmptyStr, JsonNull, JsonInt("0"), Str(<<"a", "CR", "LF", "&", "<", ">", "CR">>)}

Grids ==
    UNION {[1..r -> [1..c -> CellValues]] : r \in 0..MaxRows, c \in 0..MaxCols}

InitSheet ==
    /\ pc = "sheet"
    /\ rows \in Grids
    /\ sheet = <<>>
    /\ IdleMain /\ IdleFields /\ fields = <<>> /\ IdleColumn

SheetXml ==
    /\ pc = "sheet"
    /\ sheet' = _sheet_xml(rows)
    /\ pc' = "sheet_done"
    /\ UNCHANGED <<rows, fields, mainVars, fieldVars, columnVars>>

NextSheet == SheetXml

SpecSheet == InitSheet /\ [][NextSheet]_vars

-----------------------------------------------------------------------------
(* SpecColumn: the while loop of _column_name for every index from 1 to    *)
(* MaxIndex.                                                               *)

InitColumn ==
    /\ pc = "column"
    /\ n \in 1..MaxIndex
    /\ index = n
    /\ name = <<>>
    /\ IdleMain /\ IdleFields /\ fields = <<>> /\ rows = <<>> /\ sheet = <<>>

\* `while index:` holds: one iteration
ColumnIterate ==
    /\ pc = "column"
    /\ index # 0
    /\ LET s == ColumnStep(index, name)
       IN  index' = s.index /\ name' = s.name
    /\ UNCHANGED <<pc, n, fields, rows, sheet, mainVars, fieldVars>>

\* `while index:` fails: return name
ColumnReturn ==
    /\ pc = "column"
    /\ index = 0
    /\ pc' = "column_done"
    /\ UNCHANGED <<n, index, name, fields, rows, sheet, mainVars, fieldVars>>

NextColumn == ColumnIterate \/ ColumnReturn

SpecColumn == InitColumn /\ [][NextColumn]_vars

-----------------------------------------------------------------------------
(* Properties of the column order (SpecFields).                            *)

\* the keys of a walk in the order of their first occurrence
RECURSIVE FirstSeen(_)
FirstSeen(w) ==
    IF w = <<>> THEN <<>>
    ELSE LET front == SubSeq(w, 1, Len(w) - 1)
             last == w[Len(w)]
         IN  IF last \in Range(front) THEN FirstSeen(front)
             ELSE Append(FirstSeen(front), last)

NoDuplicates(s) == \A i, j \in DOMAIN s : i # j => s[i] # s[j]

\* C1: when timeMinute, groupPlay, watchUcnt, pcuTotal and keyEvent were all
\* discovered, whatever else was and in whatever order, the final column order
\* starts with timeMinute, has no groupPlay, ends with keyEvent and has
\* watchUcnt then pcuTotal right before keyEvent.
C1_FixedPositions ==
    (pc = "ordered" /\ FixedFields \subseteq Range(walk)) =>
        LET k == Len(fields)
        IN  /\ k >= 4
            /\ fields[1] = "timeMinute"
            /\ ~Contains(fields, "groupPlay")
            /\ fields[k] = "keyEvent"
            /\ fields[k - 2] = "watchUcnt"
            /\ fields[k - 1] = "pcuTotal"

\* the five were discovered with another field, and none in its final place
C1_Witness ==
    /\ pc = "ordered"
    /\ FixedFields \subseteq Range(walk)
    /\ Range(walk) \cap OtherFields # {}
    /\ walk[1] = "keyEvent"
    /\ walk[Len(walk)] = "timeMinute"

\* C4 as claimed: the final column order has no duplicate and holds every key
\* of every record exactly once.
C4_EveryKeyOnce ==
    pc = "ordered" =>
        /\ NoDuplicates(fields)
        /\ \A k \in Range(walk) : Count(fields, k) = 1

\* C4 as amended: the final column order has no duplicate and holds every key
\* of every record other than groupPlay exactly once.
C4_EveryKeptKeyOnce ==
    pc = "ordered" =>
        /\ NoDuplicates(fields)
        /\ \A k \in Range(walk) \ {"groupPlay"} : Count(fields, k) = 1

\* groupPlay and two more keys were walked, one of them more than once
C4_Witness ==
    /\ pc = "ordered"
    /\ "groupPlay" \in Range(walk)
    /\ Cardinality(Range(walk)) >= 3
    /\ Len(walk) > Cardinality(Range(walk))

\* C10: the fields without a fixed position stand together, after timeMinute
\* (when discovered) and before the fixed tail, in the order of their first
\* occurrence in the walk.
C10_OthersFirstSeen ==
    pc = "ordered" =>
        LET others == SelectSeq(FirstSeen(walk), LAMBDA k : k \in OtherFields)
            h == IF "timeMinute" \in Range(walk) THEN 1 ELSE 0
        IN  /\ Len(fields) >= h + Len(others)
            /\ h = 1 => fields[1] = "timeMinute"
            /\ SubSeq(fields, h + 1, h + Len(others)) = others
            /\ \A i \in DOMAIN fields : i > h + Len(others) => fields[i] \in FixedFields

\* two fields without a fixed position, the first walked again after the
\* second, and timeMinute discovered after both
C10_Witness ==
    /\ pc = "ordered"
    /\ \E i, j, k, l \in DOMAIN walk :
          /\ i < j /\ j < k /\ k < l
          /\ walk[i] \in OtherFields /\ walk[j] \in OtherFields
          /\ walk[i] # walk[j] /\ walk[k] = walk[i]
          /\ walk[l] = "timeMinute"

-----------------------------------------------------------------------------
(* Properties of _column_name (SpecColumn).                                *)

LetterIndex(letter) == CHOOSE i \in DOMAIN Alphabet : Alphabet[i] = letter

\* the number a letter code denotes in bijective base 26 (A = 1 .. Z = 26)
RECURSIVE CodeValue(_)
CodeValue(code) ==
    IF code = <<>> THEN 0
    ELSE CodeValue(SubSeq(code, 1, Len(code) - 1)) * Len(Alphabet)
         + LetterIndex(code[Len(code)])

\* a comes before b: shorter first, then alphabetical
ShortLexLess(a, b) ==
    \/ Len(a) < Len(b)
    \/ /\ Len(a) = Len(b)
       /\ \E i \in DOMAIN a :
             /\ \A j \in 1..(i - 1) : a[j] = b[j]
             /\ LetterIndex(a[i]) < LetterIndex(b[i])

C6_Returned ==
    pc = "column_done" =>
        /\ name # <<>>
        /\ \A i \in DOMAIN name : name[i] \in Range(Alphabet)
        /\ CodeValue(name) = n
        /\ \A m \in 1..(n - 1) : ShortLexLess(_column_name(m), name)
        /\ n = 1 => name = <<"A">>
        /\ n = 26 => name = <<"Z">>
        /\ n = 27 => name = <<"A", "A">>
        /\ n = 702 => name = <<"Z", "Z">>
        /\ n = 703 => name = <<"A", "A", "A">>

C6_Decreases == index' # index => (0 <= index' /\ index' < index)

\* C6: for every index n >= 1 the loop of _column_name terminates (index
\* decreases and stays >= 0) and returns the bijective base-26 letter code of
\* n: letters A..Z only, denoting n, after the codes of all smaller indices in
\* shorter-first-then-alphabetical order (hence injective), with 1 -> A,
\* 26 -> Z, 27 -> AA, 702 -> ZZ, 703 -> AAA.
C6_ColumnCode == []C6_Returned /\ [][C6_Decreases]_vars

\* the first three-letter code was returned
C6_Witness == pc = "column_done" /\ n = 703 /\ name = <<"A", "A", "A">>

-----------------------------------------------------------------------------
(* Properties of _sheet_xml (SpecSheet).                                   *)

\* the positions of the lines of a kind
LinesOf(kind) == {i \in DOMAIN sheet : sheet[i].kind = kind}

\* the <row> line that encloses line i: the last one before it
RowOf(i) ==
    LET before == {j \in LinesOf("row") : j < i}
    IN  CHOOSE j \in before : \A q \in before : q <= j

\* line i lies inside a row element: after a <row> with no </row> between
InsideRow(i) ==
    /\ \E j \in LinesOf("row") : j < i
    /\ ~\E q \in LinesOf("/row") : RowOf(i) < q /\ q < i

\* C5: a cell is emitted for row r, column c iff the value there is neither
\* "" nor None; the cell is addressed by the letter of c and r whatever cells
\* were omitted before it, and lies in the row element of r; every input row
\* yields exactly one row element, numbered by its 1-based position.
C5_SparseCells ==
    pc = "sheet_done" =>
        /\ Cardinality(LinesOf("row")) = Len(rows)
        /\ Cardinality(LinesOf("/row")) = Len(rows)
        /\ \A r \in DOMAIN rows : \E i \in LinesOf("row") : sheet[i].r = r
        /\ \A i, j \in LinesOf("row") : i < j => sheet[i].r < sheet[j].r
        /\ \A r \in DOMAIN rows : \A c \in DOMAIN rows[r] :
              LET cells == {i \in LinesOf("c") :
                               sheet[i].r = r /\ sheet[i].col = <<Alphabet[c]>>}
              IN  IF rows[r][c] = EmptyStr \/ rows[r][c] = JsonNull
                  THEN cells = {}
                  ELSE Cardinality(cells) = 1
        /\ \A i \in LinesOf("c") :
              /\ InsideRow(i)
              /\ sheet[RowOf(i)].r = sheet[i].r
              /\ sheet[i].r \in DOMAIN rows
              /\ \E c \in DOMAIN rows[sheet[i].r] : sheet[i].col = <<Alphabet[c]>>

\* a row whose first value is "" and whose second is the number 0
C5_Witness ==
    /\ pc = "sheet_done"
    /\ \E r \in DOMAIN rows :
          /\ Len(rows[r]) >= 2
          /\ rows[r][1] = EmptyStr
          /\ rows[r][2] = JsonInt("0")
          /\ \E i \in LinesOf("c") : sheet[i].r = r /\ sheet[i].col = <<"B">>

-----------------------------------------------------------------------------
(* Properties of main and _write_xlsx (Spec).                              *)

\* the paths of the parts in the file
PartNames(file) == {file.parts[i].name : i \in DOMAIN file.parts}

\* the body of the part at a path
BodyOf(file, path) ==
    file.parts[CHOOSE i \in DOMAIN file.parts : file.parts[i].name = path].body

\* a complete package of this run: finalised, with all eight parts
Complete(file) ==
    /\ file.exists /\ file.origin = "new" /\ file.finalised
    /\ PartNames(file) =
          {<<"[Content_Types].xml">>, <<"_rels", ".rels">>,
           <<"docProps", "core.xml">>, <<"docProps", "app.xml">>,
           <<"xl", "workbook.xml">>, <<"xl", "_rels", "workbook.xml.rels">>,
           <<"xl", "styles.xml">>, <<"xl", "worksheets", "sheet1.xml">>}
    /\ Len(file.parts) = Cardinality(PartNames(file))

\* C2 as claimed: after a failed write the file at the output name is absent,
\* or its previous content, or a complete package.
C2_FailedWriteLeavesNoPartialFile ==
    (pc = "exit" /\ error = "OSError") =>
        \/ ~fs.file.exists
        \/ fs.file.origin = "previous"
        \/ Complete(fs.file)

\* extraction fails or yields an empty series
ExtractionFailsOrEmpty ==
    \/ ~payload.json
    \/ payload.data_string # "text"
    \/ ~payload.text_json
    \/ payload.series.t # "list"
    \/ payload.series.items = <<>>

\* _write_xlsx has not started: no worksheet rendered, the directory not
\* created, the file not touched
OutputUntouched == fs \in InitialFs /\ sheet = <<>>

\* C3: when extraction fails or yields an empty series, main ends with an
\* error without having created or modified the output directory or file, and
\* never gets past the emptiness test; _write_xlsx starts only with a
\* non-empty extracted series.
C3_NoOutputWithoutSeries ==
    /\ ExtractionFailsOrEmpty =>
          /\ pc \in {"start", "loaded", "exit"}
          /\ pc = "loaded" => payload.series.t = "list" /\ series = <<>>
          /\ pc = "exit" => error \in {"JSONDecodeError", "KeyError", "ValueError",
                                       "TypeError", "SystemExit"}
          /\ OutputUntouched
    /\ ~OutputUntouched =>
          /\ _load_data_string_series(payload).error = None
          /\ series # <<>>
          /\ series = payload.series.items

\* main ended on an empty series with nothing on disk
C3_Witness ==
    /\ pc = "exit" /\ error = "SystemExit"
    /\ payload.series = Json("list", <<>>)
    /\ fs = [dir |-> "absent", file |-> NoFile]

\* C7: in a package written successfully, every Override part of the manifest
\* is in the archive, every Target of the root and workbook relationships,
\* resolved against the directory of the part that owns them, is in the
\* archive, and the one sheet "data" of the workbook uses a relationship id
\* that the workbook relationships declare once, for the worksheet body.
C7_ReferencesClosed ==
    pc \in {"written", "done"} =>
        LET file == fs.file
            names == PartNames(file)
            worksheet == <<"xl", "worksheets", "sheet1.xml">>
        IN  /\ {<<"[Content_Types].xml">>, <<"_rels", ".rels">>,
                <<"xl", "workbook.xml">>, <<"xl", "_rels", "workbook.xml.rels">>}
                  \subseteq names
            /\ \A o \in BodyOf(file, <<"[Content_Types].xml">>).overrides :
                  Head(o) = "" /\ Tail(o) \in names
            /\ \A rel \in BodyOf(file, <<"_rels", ".rels">>).rels :
                  rel.Target \in names
            /\ \A rel \in BodyOf(file, <<"xl", "_rels", "workbook.xml.rels">>).rels :
                  <<"xl">> \o rel.Target \in names
            /\ \E sh \in BodyOf(file, <<"xl", "workbook.xml">>).sheets :
                  /\ BodyOf(file, <<"xl", "workbook.xml">>).sheets = {sh}
                  /\ sh.name = "data"
                  /\ LET declared ==
                            {rel \in BodyOf(file, <<"xl", "_rels", "workbook.xml.rels">>).rels :
                                rel.Id = sh.id}
                     IN  /\ Cardinality(declared) = 1
                         /\ \A rel \in declared : <<"xl">> \o rel.Target = worksheet
            /\ worksheet \in names
            /\ BodyOf(file, worksheet).lines = _sheet_xml(rows)

\* a package was written in full
C7_Witness == pc = "done" /\ Complete(fs.file)

\* data.series is a list with an element that is not a mapping
SeriesHasNonMapping ==
    /\ payload.json /\ payload.data_string = "text" /\ payload.text_json
    /\ payload.series.t = "list"
    /\ \E i \in DOMAIN payload.series.items : payload.series.items[i].t # "dict"

\* C8 as claimed: a series with an element that is not a mapping fails
\* extraction with a type error and never reaches field ordering or row
\* projection.
C8_NonMappingRejected ==
    SeriesHasNonMapping =>
        /\ pc \in {"start", "exit"}
        /\ pc = "exit" => error = "TypeError"

\* C9: the final column order ends with keyEvent and holds it once, also when
\* no record has a keyEvent key; then the label row has keyEvent's label in
\* the last column and every data row the empty value.
C9_KeyEventAlwaysLast ==
    pc \in {"fields", "rows", "mkdir", "zip", "written", "done"} =>
        /\ series # <<>>
        /\ fields # <<>>
        /\ fields[Len(fields)] = "keyEvent"
        /\ Count(fields, "keyEvent") = 1
        /\ (pc # "fields" /\ \A e \in DOMAIN series : ~Contains(Keys(series[e]), "keyEvent")) =>
              /\ Len(rows) = Len(series) + 2
              /\ \A r \in DOMAIN rows : Len(rows[r]) = Len(fields)
              /\ rows[1][Len(fields)] = Str(<<"keyEvent">>)
              /\ rows[2][Len(fields)] = Str(<<"U+5173U+952EU+4E8BU+4EF6">>)
              /\ \A r \in 3..Len(rows) : rows[r][Len(fields)] = EmptyStr

\* a package was written from records none of which has keyEvent
C9_Witness ==
    /\ pc = "done"
    /\ \E e \in DOMAIN series : Keys(series[e]) # <<>>
    /\ \A e \in DOMAIN series : ~Contains(Keys(series[e]), "keyEvent")

====
